---- MODULE Spec2Model ----
(***************************************************************************)
(* Diagonal Sudoku solver (solution.py): topology, constraint propagation  *)
(* (eliminate, only_choice, reduce_puzzle), naked_twins and the            *)
(* depth-first search, as a state machine.                                 *)
(*                                                                         *)
(* Encoding.  A digit character '1'..'9' is the integer 1..9 and '.' is 0. *)
(* A string of digits is a sequence of digits.  A row letter 'A'..'I' is   *)
(* 1..9, and the box name a + b (string concatenation of a row letter and  *)
(* a column digit) is the integer 10*a + b, so 'A1' is 11 and 'I9' is 99.  *)
(* A dict is a function from its keys to its values; its key (insertion)   *)
(* order, which dict.copy() preserves, is carried by the variable order.   *)
(* Dict objects live in a heap indexed by references, so that aliasing and *)
(* in-place mutation are visible.                                          *)
(***************************************************************************)
EXTENDS Integers, Sequences, FiniteSets, TLC

Range(s) == {s[i] : i \in DOMAIN s}

(* Rest applied to the value of x, with x computed once and in full before *)
(* Rest starts: one statement after another.  (TLC evaluates operator      *)
(* arguments and function constructors on demand; a chain of pending loop  *)
(* iterations would otherwise be evaluated recursively, and repeatedly.)   *)
Then(x, Rest(_)) == CHOOSE y \in {Rest(v) : v \in {w \in {x} : w = w}} : TRUE

Reverse(s) == [i \in 1..Len(s) |-> s[Len(s) + 1 - i]]

RECURSIVE Flatten(_)
Flatten(ss) == IF ss = <<>> THEN <<>> ELSE Head(ss) \o Flatten(Tail(ss))

(* str.replace(d, '') for a one-character d: drops every occurrence of d.  *)
replace(s, d) == SelectSeq(s, LAMBDA x : x # d)

(* sorted(...) of an iterable of digits, duplicates kept.                  *)
RECURSIVE sorted(_)
sorted(s) ==
  IF s = <<>> THEN <<>>
  ELSE LET h == Head(s)
           r == sorted(Tail(s))
       IN SelectSeq(r, LAMBDA x : x < h) \o <<h>> \o SelectSeq(r, LAMBDA x : x >= h)

(* sorted(set) of a set of digits.                                         *)
RECURSIVE sorted_set(_)
sorted_set(S) ==
  IF S = {} THEN <<>>
  ELSE LET m == CHOOSE x \in S : \A y \in S : x <= y
       IN <<m>> \o sorted_set(S \ {m})

(************************** topology, lines 4-21 ***************************)

cross(A, B) ==
  [i \in 1..(Len(A) * Len(B)) |->
     10 * A[((i - 1) \div Len(B)) + 1] + B[((i - 1) % Len(B)) + 1]]

rows == <<1, 2, 3, 4, 5, 6, 7, 8, 9>>

cols == <<1, 2, 3, 4, 5, 6, 7, 8, 9>>

boxes == cross(rows, cols)

row_units == [i \in 1..Len(rows) |-> cross(<<rows[i]>>, cols)]

column_units == [i \in 1..Len(cols) |-> cross(rows, <<cols[i]>>)]

square_units ==
  LET bands == <<SubSeq(rows, 1, 3), SubSeq(rows, 4, 6), SubSeq(rows, 7, 9)>>
      stacks == <<SubSeq(cols, 1, 3), SubSeq(cols, 4, 6), SubSeq(cols, 7, 9)>>
  IN [i \in 1..9 |-> cross(bands[((i - 1) \div 3) + 1], stacks[((i - 1) % 3) + 1])]

(* zip(rows, cols) and zip(rows, cols[::-1]), each pair joined as a + b.   *)
diagonal_units ==
  << [i \in 1..Len(rows) |-> 10 * rows[i] + cols[i]],
     [i \in 1..Len(rows) |-> 10 * rows[i] + Reverse(cols)[i]] >>

(* A faulty variant of unitlist: the two diagonals are left out.           *)
unitlist_no_diagonals == row_units \o column_units \o square_units

unitlist == row_units \o column_units \o square_units \o diagonal_units

BoxSet == Range(boxes)

units ==
  [s \in BoxSet |-> SelectSeq(unitlist, LAMBDA u : s \in Range(u))]

peers ==
  [s \in BoxSet |-> Range(Flatten(units[s])) \ {s}]

all_digits == <<1, 2, 3, 4, 5, 6, 7, 8, 9>>

(* The dict {} : no keys.                                                  *)
EmptyDict == [b \in {} |-> <<>>]

(*********************** grid_values, lines 99-112 *************************)

(* zip(boxes, grid) stops at the shorter of the two; the grids of this     *)
(* model all have 81 characters.                                           *)
grid_values(grid) ==
  [box \in {boxes[i] : i \in 1..(IF Len(grid) < Len(boxes) THEN Len(grid) ELSE Len(boxes))} |->
     LET i == CHOOSE j \in 1..Len(boxes) : boxes[j] = box
     IN IF grid[i] # 0 THEN <<grid[i]>> ELSE all_digits]

(******************************* the heap **********************************)

(* A heap state S is [heap |-> reference -> dict contents, n |-> number of *)
(* snapshots appended to the list assignments so far, ref |-> the          *)
(* reference an operation has just produced].                              *)

NoRef == -1

NewRef(h) ==
  CHOOSE r \in 0..Cardinality(DOMAIN h) :
    r \notin DOMAIN h /\ \A q \in 0..(r - 1) : q \in DOMAIN h

(* A faulty variant of dict_copy: no copy is made, the result is the dict   *)
(* object itself.                                                          *)
dict_copy_alias(S, r) == [heap |-> S.heap, n |-> S.n, ref |-> r]

(* d.copy(): a new dict object with the same keys and values.              *)
dict_copy(S, r) ==
  LET c == NewRef(S.heap)
  IN [heap |-> S.heap @@ (c :> S.heap[r]), n |-> S.n, ref |-> c]

(* The expression {} : a new dict object without keys.                     *)
dict_new(S) ==
  LET c == NewRef(S.heap)
  IN [heap |-> S.heap @@ (c :> EmptyDict), n |-> S.n, ref |-> c]

(* The keys of the dict contents d in the key order ord.                   *)
dict_keys(d, ord) == SelectSeq(ord, LAMBDA b : b \in DOMAIN d)

(************************ assign_value, lines 27-35 ************************)

(* values[box] = value on the dict object values, and one snapshot         *)
(* appended to assignments if len(value) == 1 (only the length of that     *)
(* list is modelled, as n).                                                *)
assign_value(S, values, box, value) ==
  [S EXCEPT !.heap[values][box] = value,
            !.n = @ + (IF Len(value) = 1 THEN 1 ELSE 0)]

(************************* eliminate, lines 141-148 ************************)

(* A faulty variant of eliminate_step: the digit is removed from the peers *)
(* in the row of box only.                                                 *)
eliminate_step_row_only(S, grid, box) ==
  LET d == S.heap[grid]
      choices == d[box]
      row_peers == {p \in peers[box] : p \div 10 = box \div 10}
  IN IF Len(choices) # 1 THEN S
     ELSE [S EXCEPT
             !.heap[grid] = [p \in DOMAIN d |->
                               IF p \in row_peers THEN replace(d[p], choices[1])
                               ELSE d[p]],
             !.n = @ + Cardinality({p \in row_peers :
                                      Len(replace(d[p], choices[1])) = 1})]

(* The body of the loop of lines 142-147 for the key box of the local dict *)
(* grid.  grid.items() yields the value a key has when the loop reaches    *)
(* it.  Line 147 runs for every peer; the peers of one box are updated     *)
(* independently of each other, so the iteration order of the set          *)
(* peers[box] does not matter.                                             *)
eliminate_step(S, grid, box) ==
  LET d == S.heap[grid]
      choices == d[box]
  IN IF Len(choices) # 1 THEN S
     ELSE [S EXCEPT
             !.heap[grid] = [p \in DOMAIN d |->
                               IF p \in peers[box] THEN replace(d[p], choices[1])
                               ELSE d[p]],
             !.n = @ + Cardinality({p \in peers[box] :
                                      Len(replace(d[p], choices[1])) = 1})]

(* The loop of lines 142-147 over the keys lo..hi, in key order (the range *)
(* is split in two halves that run one after the other).                   *)
RECURSIVE eliminate_loop(_, _, _, _, _)
eliminate_loop(S, grid, keys, lo, hi) ==
  IF lo > hi THEN S
  ELSE IF lo = hi THEN eliminate_step(S, grid, keys[lo])
  ELSE Then((lo + hi) \div 2, LAMBDA mid :
         Then(eliminate_loop(S, grid, keys, lo, mid), LAMBDA left :
           eliminate_loop(left, grid, keys, mid + 1, hi)))

(* eliminate(values); ord is the key order of the dict values.             *)
eliminate(S, values, ord) ==
  Then(dict_copy(S, values), LAMBDA c :
    Then(dict_keys(c.heap[c.ref], ord), LAMBDA keys :
      eliminate_loop(c, c.ref, keys, 1, Len(keys))))

(************************ only_choice, lines 160-167 ***********************)

(* values[box] of line 163 raises KeyError when box is not a key.          *)
only_choice_raises(S, values) ==
  \E box \in BoxSet : box \notin DOMAIN S.heap[values]

(* Lines 163-166 for the k-th (unit, digit) pair of the loops of lines     *)
(* 161-162: reads the dict values, writes the dict result.                 *)
only_choice_step(S, values, result, k) ==
  LET unit == unitlist[((k - 1) \div 9) + 1]
      digit == all_digits[((k - 1) % 9) + 1]
      boxes_with_digit ==
        SelectSeq(unit, LAMBDA box : digit \in Range(S.heap[values][box]))
  IN IF Len(boxes_with_digit) = 1
     THEN assign_value(S, result, boxes_with_digit[1], <<digit>>)
     ELSE S

(* The loops of lines 161-166 over the (unit, digit) pairs lo..hi in order. *)
RECURSIVE only_choice_loop(_, _, _, _, _)
only_choice_loop(S, values, result, lo, hi) ==
  IF lo > hi THEN S
  ELSE IF lo = hi THEN only_choice_step(S, values, result, lo)
  ELSE Then((lo + hi) \div 2, LAMBDA mid :
         Then(only_choice_loop(S, values, result, lo, mid), LAMBDA left :
           only_choice_loop(left, values, result, mid + 1, hi)))

(* only_choice(values), for a dict values that has every box as a key.     *)
only_choice(S, values) ==
  Then(dict_copy(S, values), LAMBDA c :
    only_choice_loop(c, values, c.ref, 1, Len(unitlist) * 9))

(************************ naked_twins, lines 50-79 *************************)

canonicalize(choices) == sorted(choices)

(* choices_to_boxes of lines 55-60 for one unit: its keys in insertion     *)
(* order (ks) and the set of boxes of each key (bs).                       *)
choices_to_boxes(d, unit) ==
  LET two == SelectSeq(unit, LAMBDA box : Len(canonicalize(d[box])) = 2)
      cs == [i \in 1..Len(two) |-> canonicalize(d[two[i]])]
  IN [ks |-> SelectSeq([i \in 1..Len(cs) |->
                          IF \E j \in 1..(i - 1) : cs[j] = cs[i] THEN <<>> ELSE cs[i]],
                       LAMBDA c : c # <<>>),
      bs |-> [c \in Range(cs) |-> {two[i] : i \in {j \in 1..Len(two) : cs[j] = c}}]]

(* Lines 62-77 for one unit, from the k-th key of choices_to_boxes on, on  *)
(* the local dict values.  T is a heap state with a field fail, set where  *)
(* the code returns {}.  The boxes of peers_in_unit are updated            *)
(* independently of each other, and the code returns {} as soon as one of  *)
(* them would become empty.                                                *)
RECURSIVE twins_groups(_, _, _, _, _)
twins_groups(T, values, unit, ctb, k) ==
  IF T.fail \/ k > Len(ctb.ks) THEN T
  ELSE LET d == T.heap[values]
           choices == ctb.ks[k]
           bxs == ctb.bs[choices]
           peers_in_unit == Range(unit) \ bxs
           new_choices(peer) == sorted_set(Range(d[peer]) \ Range(choices))
       IN IF Cardinality(bxs) < 2 THEN twins_groups(T, values, unit, ctb, k + 1)
          ELSE IF Cardinality(bxs) > 2 THEN [T EXCEPT !.fail = TRUE]
          ELSE IF \E peer \in peers_in_unit : new_choices(peer) = <<>>
               THEN [T EXCEPT !.fail = TRUE]
          ELSE Then([T EXCEPT
                       !.heap[values] = [p \in DOMAIN d |->
                                           IF p \in peers_in_unit THEN new_choices(p)
                                           ELSE d[p]],
                       !.n = @ + Cardinality({p \in peers_in_unit :
                                                Len(new_choices(p)) = 1})],
                    LAMBDA U : twins_groups(U, values, unit, ctb, k + 1))

(* The loop of line 54 over the units lo..hi of unitlist in order, until   *)
(* the code returns {} (the range is split in two halves that run one      *)
(* after the other).                                                       *)
RECURSIVE twins_units(_, _, _, _)
twins_units(T, values, lo, hi) ==
  IF T.fail \/ lo > hi THEN T
  ELSE IF lo = hi
       THEN Then(choices_to_boxes(T.heap[values], unitlist[lo]), LAMBDA ctb :
              twins_groups(T, values, unitlist[lo], ctb, 1))
  ELSE Then((lo + hi) \div 2, LAMBDA mid :
         Then(twins_units(T, values, lo, mid), LAMBDA left :
           twins_units(left, values, mid + 1, hi)))

(* values[box] of line 57 raises KeyError when box is not a key.           *)
naked_twins_raises(S, values) ==
  \E box \in BoxSet : box \notin DOMAIN S.heap[values]

(* naked_twins(values), for a dict values that has every box as a key: the *)
(* local copy, or a new {} where the code returns {}.                      *)
naked_twins(S, values) ==
  Then(dict_copy(S, values), LAMBDA c :
    Then(twins_units([heap |-> c.heap, n |-> c.n, ref |-> c.ref, fail |-> FALSE],
                     c.ref, 1, Len(unitlist)), LAMBDA T :
      LET R == [heap |-> T.heap, n |-> T.n, ref |-> T.ref]
      IN IF T.fail THEN dict_new(R) ELSE R))

(******************** helpers of reduce_puzzle and search ******************)

(* A faulty variant of solved_count: counts the boxes that are not solved. *)
solved_count_open(d) == Cardinality({b \in DOMAIN d : Len(d[b]) > 1})

(* len([box for box, choices in values.items() if len(choices) == 1])      *)
solved_count(d) == Cardinality({b \in DOMAIN d : Len(d[b]) = 1})

(* A faulty variant of empty_count: the sanity check of line 186 never      *)
(* finds an empty box.                                                     *)
empty_count_none(d) == Cardinality({b \in DOMAIN d : FALSE})

(* len([box for box, choices in values.items() if len(choices) == 0])      *)
empty_count(d) == Cardinality({b \in DOMAIN d : Len(d[b]) = 0})

(* min(squares_not_solved, key=num_choices): the first key, in the dict's  *)
(* key order, among those of minimal length > 1.                           *)
square_fewest(d, keys) ==
  LET ns == SelectSeq(keys, LAMBDA b : Len(d[b]) > 1)
      i == CHOOSE j \in 1..Len(ns) :
             /\ \A k \in 1..Len(ns) : Len(d[ns[j]]) <= Len(d[ns[k]])
             /\ \A k \in 1..(j - 1) : Len(d[ns[k]]) > Len(d[ns[j]])
  IN ns[i]

(******************************* inputs ************************************)

(* diag_sudoku_grid of lines 225-226.                                      *)
diag_sudoku_grid ==
  << 2,0,0,0,0,0,0,0,0,  0,0,0,0,0,6,2,0,0,  0,0,1,0,0,0,0,7,0,
     0,0,6,0,0,8,0,0,0,  3,0,0,0,9,0,0,0,7,  0,0,0,6,0,0,4,0,0,
     0,4,0,0,0,0,8,0,0,  0,0,5,2,0,0,0,0,0,  0,0,0,0,0,0,0,0,3 >>

(* The grid that solve(diag_sudoku_grid) returns, as an 81-character grid. *)
Solved ==
  << 2,6,7,9,4,5,3,8,1,  8,5,3,7,1,6,2,4,9,  4,9,1,8,2,3,5,7,6,
     5,7,6,4,3,8,1,9,2,  3,8,4,1,9,2,6,5,7,  1,2,9,6,5,7,4,3,8,
     6,4,2,3,7,9,8,1,5,  9,3,5,2,8,1,7,6,4,  7,1,8,5,6,4,9,2,3 >>

(* The digits that may be erased from Solved are the first MaxErase of     *)
(* EraseSeq; the character written over box A2 is one of 1..MaxPokeChar.   *)
MaxErase == 3

MaxPokeChar == 2

EraseSeq == <<1, 4, 5, 2, 3, 6, 7, 8, 9>>

EraseSets == SUBSET {EraseSeq[i] : i \in 1..MaxErase}

Erase(grid, D) == [i \in 1..Len(grid) |-> IF grid[i] \in D THEN 0 ELSE grid[i]]

(* The grid with the character of box A2 (the second) overwritten.         *)
Poke(grid, ch) == [grid EXCEPT ![2] = ch]

(* The 81-character grids given to solve.                                  *)
Grids ==
  {diag_sudoku_grid}
    \cup {Erase(Solved, D) : D \in EraseSets}
    \cup {Poke(Erase(Solved, D), ch) : D \in EraseSets, ch \in 1..MaxPokeChar}

(* Mappings that are not the image of a grid: every box open, except that  *)
(* the boxes A1, A2, A3, D1 have one of the domains of PatchDoms each.     *)
PatchBoxes == {11, 12, 13, 41}

PatchDoms == {all_digits, <<1>>, <<1, 2>>, <<1, 3>>}

Patterns ==
  {[b \in BoxSet |-> IF b \in PatchBoxes THEN f[b] ELSE all_digits] :
     f \in [PatchBoxes -> PatchDoms]}

GridMaps == {grid_values(g) : g \in Grids}

(* Mappings of Solved, and of Solved with all the digits erased that may   *)
(* be, in which the given of box A2 (a 6 in Solved) is replaced by two     *)
(* candidates.                                                             *)
NarrowDoms == {<<1, 6>>, <<1, 2>>}

Narrowed ==
  {[grid_values(Erase(Solved, D)) EXCEPT ![boxes[2]] = dom] :
     D \in {{}, UNION EraseSets}, dom \in NarrowDoms}

(* The functions that take a mapping, and the mappings each is given       *)
(* (search is not given the mappings of Patterns: it would have to fill in *)
(* a nearly empty grid).                                                   *)
Entries == {"search", "reduce_puzzle", "eliminate", "only_choice", "naked_twins"}

Inputs(e) ==
  IF e = "search" THEN GridMaps \cup Narrowed
  ELSE GridMaps \cup Narrowed \cup Patterns

(* The key orders of the mappings given: A1..I9 as grid_values builds      *)
(* them, and the reverse.                                                  *)
Orders == {boxes, Reverse(boxes)}

(******************************* state *************************************)

VARIABLES
  entry,        \* the function the caller invokes
  input,        \* its argument: a grid for solve, else the contents of the dict
  order,        \* the key order of the dicts of this run
  heap,         \* reference -> dict contents; the caller's dict is reference 0
  assignments,  \* len(assignments), line 24
  stack,        \* the call stack of solve, reduce_puzzle and search frames
  ret,          \* the value just returned to the frame on top, or the exception
  round,        \* how many calls the caller has made (reduce_puzzle: up to 2)
  first,        \* what the caller's first call returned
  iter          \* the counts of the last iteration of the loop of reduce_puzzle

vars == <<entry, input, order, heap, assignments, stack, ret, round, first, iter>>

NoRet == [kind |-> "none", ref |-> NoRef]

NoIter == [ran |-> FALSE, before |-> 0, after |-> 0, empty |-> 0]

(* A frame: the function, the point it is at, the reference it was called  *)
(* with and what that dict held at the call (argv), its local variable     *)
(* values (grid in solve), and in search square_fewest, the string the     *)
(* for loop of line 215 iterates, the position in it, the digits assigned  *)
(* so far at line 217, and what values held after line 197 (post).         *)
Frame(fn, pc, arg, argv, values) ==
  [fn |-> fn, pc |-> pc, arg |-> arg, argv |-> argv, values |-> values,
   square |-> 0, digits |-> <<>>, i |-> 0, tried |-> <<>>, post |-> EmptyDict]

Top == stack[Len(stack)]

Front(q) == SubSeq(q, 1, Len(q) - 1)

(* The references that some variable of the program still holds.           *)
Live(stk, r, fst) ==
  {0} \cup {stk[k].arg : k \in 1..Len(stk)} \cup {stk[k].values : k \in 1..Len(stk)}
      \cup {r.ref, fst}

(* The heap h without the dicts nothing refers to any more.                *)
Collect(h, stk, r, fst) ==
  [x \in DOMAIN h \cap Live(stk, r, fst) |-> h[x]]

Init ==
  /\ \/ /\ entry = "solve"
        /\ input \in Grids
        /\ order = boxes
        /\ heap = [x \in {} |-> EmptyDict]
     \/ /\ entry \in Entries
        /\ input \in Inputs(entry)
        /\ order \in Orders
        /\ heap = [x \in {0} |-> input]
  /\ assignments = 0
  /\ stack = <<>>
  /\ ret = NoRet
  /\ round = 0
  /\ first = NoRef
  /\ iter = NoIter

(****************************** actions ************************************)

(* The heap state the next operation starts from.                          *)
Now == [heap |-> heap, n |-> assignments, ref |-> NoRef]

Value(r) == [kind |-> "value", ref |-> r]

(* The program goes on from the heap state S with the call stack stk, the  *)
(* pending return value r and the caller's variable first = fst.           *)
GotoWith(S, stk, r, fst) ==
  /\ stack' = stk
  /\ ret' = r
  /\ heap' = Collect(S.heap, stk, r, fst)
  /\ assignments' = S.n

Goto(S, stk, r) == GotoWith(S, stk, r, first)

(* return S.ref in the frame on top.                                       *)
Return(S) == Goto(S, Front(stack), Value(S.ref))

(* An exception nothing catches leaves every frame.                        *)
Raise(S) == Goto(S, <<>>, [kind |-> "raise", ref |-> NoRef])

(* The frame on top becomes f, and calls fn with the dict r.               *)
CallFrom(S, f, fn, pc, r) ==
  Goto(S, Front(stack) \o <<f, Frame(fn, pc, r, S.heap[r], r)>>, NoRet)

(* The caller invokes solve(input), search(input) or reduce_puzzle(input). *)
Call ==
  /\ round = 0
  /\ entry \in {"solve", "search", "reduce_puzzle"}
  /\ round' = 1
  /\ stack' = << CASE entry = "solve" -> Frame("solve", "start", NoRef, EmptyDict, NoRef)
                   [] entry = "search" -> Frame("search", "enter", 0, heap[0], 0)
                   [] entry = "reduce_puzzle" ->
                        Frame("reduce_puzzle", "loop", 0, heap[0], 0) >>
  /\ UNCHANGED <<entry, input, order, heap, assignments, ret, first, iter>>

(* The caller invokes reduce_puzzle again, on what reduce_puzzle returned. *)
Again ==
  /\ entry = "reduce_puzzle"
  /\ round = 1
  /\ stack = <<>>
  /\ ret.kind = "value"
  /\ round' = 2
  /\ first' = ret.ref
  /\ GotoWith(Now, <<Frame("reduce_puzzle", "loop", ret.ref, heap[ret.ref], ret.ref)>>,
              NoRet, ret.ref)
  /\ UNCHANGED <<entry, input, order, iter>>

(* The caller invokes eliminate(input), lines 141-148.                     *)
Eliminate ==
  /\ round = 0
  /\ entry = "eliminate"
  /\ round' = 1
  /\ \E r \in {eliminate(Now, 0, order)} : Goto(r, <<>>, Value(r.ref))
  /\ UNCHANGED <<entry, input, order, first, iter>>

(* The caller invokes only_choice(input), lines 160-167.                   *)
OnlyChoice ==
  /\ round = 0
  /\ entry = "only_choice"
  /\ round' = 1
  /\ IF only_choice_raises(Now, 0) THEN Raise(Now)
     ELSE \E r \in {only_choice(Now, 0)} : Goto(r, <<>>, Value(r.ref))
  /\ UNCHANGED <<entry, input, order, first, iter>>

(* The caller invokes naked_twins(input), lines 53-79.                     *)
NakedTwins ==
  /\ round = 0
  /\ entry = "naked_twins"
  /\ round' = 1
  /\ IF naked_twins_raises(Now, 0) THEN Raise(Now)
     ELSE \E r \in {naked_twins(Now, 0)} : Goto(r, <<>>, Value(r.ref))
  /\ UNCHANGED <<entry, input, order, first, iter>>

(* solve, lines 93-94: grid = grid_values(grid), then the call of          *)
(* reduce_puzzle(grid).                                                    *)
SolveStart ==
  /\ stack # <<>>
  /\ Top.fn = "solve" /\ Top.pc = "start"
  /\ LET g == NewRef(heap)
         S == [heap |-> heap @@ (g :> grid_values(input)), n |-> assignments, ref |-> g]
     IN CallFrom(S, [Top EXCEPT !.pc = "reduced", !.values = g],
                 "reduce_puzzle", "loop", g)
  /\ UNCHANGED <<entry, input, order, round, first, iter>>

(* solve, lines 94-95: grid = what reduce_puzzle returned, then the call   *)
(* of search(grid).                                                        *)
SolveSearch ==
  /\ stack # <<>>
  /\ Top.fn = "solve" /\ Top.pc = "reduced" /\ ret.kind = "value"
  /\ CallFrom(Now, [Top EXCEPT !.pc = "searched", !.values = ret.ref],
              "search", "enter", ret.ref)
  /\ UNCHANGED <<entry, input, order, round, first, iter>>

(* solve, lines 95-96: grid = what search returned; return grid.           *)
SolveReturn ==
  /\ stack # <<>>
  /\ Top.fn = "solve" /\ Top.pc = "searched" /\ ret.kind = "value"
  /\ Return([Now EXCEPT !.ref = ret.ref])
  /\ UNCHANGED <<entry, input, order, round, first, iter>>

(* reduce_puzzle, one iteration of the loop of lines 172-187 and, when     *)
(* the loop ends, the return of line 188.                                  *)
ReduceIter ==
  /\ stack # <<>>
  /\ Top.fn = "reduce_puzzle" /\ Top.pc = "loop"
  /\ \E e \in {eliminate(Now, Top.values, order)} :
       IF only_choice_raises(e, e.ref)
       THEN Raise(e) /\ UNCHANGED iter
       ELSE \E o \in {only_choice(e, e.ref)} :
              LET solved_values_before == solved_count(heap[Top.values])
                  solved_values_after == solved_count(o.heap[o.ref])
                  stalled == solved_values_before = solved_values_after
                  empties == empty_count(o.heap[o.ref])
              IN /\ iter' = [ran |-> TRUE, before |-> solved_values_before,
                             after |-> solved_values_after, empty |-> empties]
                 /\ IF empties # 0 THEN Return(dict_new(o))
                    ELSE IF stalled THEN Return(o)
                    ELSE Goto(o, [stack EXCEPT ![Len(stack)].values = o.ref], NoRet)
  /\ UNCHANGED <<entry, input, order, round, first>>

(* search, lines 194-197: values = values.copy(), then the call of         *)
(* reduce_puzzle(values).                                                  *)
SearchEnter ==
  /\ stack # <<>>
  /\ Top.fn = "search" /\ Top.pc = "enter"
  /\ LET c == dict_copy(Now, Top.values)
     IN CallFrom(c, [Top EXCEPT !.pc = "reduced", !.values = c.ref],
                 "reduce_puzzle", "loop", c.ref)
  /\ UNCHANGED <<entry, input, order, round, first, iter>>

(* search, lines 197-211: values = what reduce_puzzle returned; return {}  *)
(* if it is empty, return values if no box has more than one digit, else   *)
(* choose square_fewest and start the loop of line 215.                    *)
SearchReduced ==
  /\ stack # <<>>
  /\ Top.fn = "search" /\ Top.pc = "reduced" /\ ret.kind = "value"
  /\ LET values == ret.ref
         d == heap[values]
     IN IF d = EmptyDict THEN Return(dict_new(Now))
        ELSE IF \A b \in DOMAIN d : Len(d[b]) <= 1 THEN Return([Now EXCEPT !.ref = values])
        ELSE LET sq == square_fewest(d, dict_keys(d, order))
             IN Goto(Now,
                     [stack EXCEPT ![Len(stack)] =
                        [@ EXCEPT !.pc = "loop", !.values = values, !.square = sq,
                                  !.digits = d[sq], !.i = 1, !.post = d]],
                     NoRet)
  /\ UNCHANGED <<entry, input, order, round, first, iter>>

(* search, lines 215-218: the next digit of the loop, assign_value, and    *)
(* the recursive call search(values).                                      *)
SearchBranch ==
  /\ stack # <<>>
  /\ Top.fn = "search" /\ Top.pc = "loop" /\ Top.i <= Len(Top.digits)
  /\ LET digit == Top.digits[Top.i]
         a == assign_value(Now, Top.values, Top.square, <<digit>>)
     IN CallFrom(a, [Top EXCEPT !.pc = "called", !.tried = Append(@, digit)],
                 "search", "enter", Top.values)
  /\ UNCHANGED <<entry, input, order, round, first, iter>>

(* A faulty variant of SearchChildReturn: what the recursive call returned *)
(* is returned even when it is empty (no other digit is tried).            *)
SearchChildReturn_no_backtrack ==
  /\ stack # <<>>
  /\ Top.fn = "search" /\ Top.pc = "called" /\ ret.kind = "value"
  /\ Return([Now EXCEPT !.ref = ret.ref])
  /\ UNCHANGED <<entry, input, order, round, first, iter>>

(* A faulty variant of SearchChildReturn: after a failed recursive call the *)
(* loop does not move on to the next digit.                                *)
SearchChildReturn_same_digit ==
  /\ stack # <<>>
  /\ Top.fn = "search" /\ Top.pc = "called" /\ ret.kind = "value"
  /\ IF heap[ret.ref] # EmptyDict THEN Return([Now EXCEPT !.ref = ret.ref])
     ELSE Goto(Now, [stack EXCEPT ![Len(stack)] = [@ EXCEPT !.pc = "loop"]], NoRet)
  /\ UNCHANGED <<entry, input, order, round, first, iter>>

(* search, lines 218-220: solution = what the recursive call returned;     *)
(* return it if it is not empty, else go on with the loop.                 *)
SearchChildReturn ==
  /\ stack # <<>>
  /\ Top.fn = "search" /\ Top.pc = "called" /\ ret.kind = "value"
  /\ IF heap[ret.ref] # EmptyDict THEN Return([Now EXCEPT !.ref = ret.ref])
     ELSE Goto(Now, [stack EXCEPT ![Len(stack)] = [@ EXCEPT !.pc = "loop", !.i = @ + 1]],
               NoRet)
  /\ UNCHANGED <<entry, input, order, round, first, iter>>

(* search, line 221: the loop is over; return {}.                          *)
SearchExhausted ==
  /\ stack # <<>>
  /\ Top.fn = "search" /\ Top.pc = "loop" /\ Top.i > Len(Top.digits)
  /\ Return(dict_new(Now))
  /\ UNCHANGED <<entry, input, order, round, first, iter>>

Next ==
  \/ Call
  \/ Again
  \/ Eliminate
  \/ OnlyChoice
  \/ NakedTwins
  \/ SolveStart
  \/ SolveSearch
  \/ SolveReturn
  \/ ReduceIter
  \/ SearchEnter
  \/ SearchReduced
  \/ SearchBranch
  \/ SearchChildReturn
  \/ SearchExhausted

Spec == Init /\ [][Next]_vars

(* A step of a run in which the caller invokes search.                     *)
SearchRun == entry = "search" /\ Next

(* Nothing in search, or in what it calls, suspends or waits: once the     *)
(* caller has invoked search, a step that can be taken is taken.           *)
FairSpec == Spec /\ WF_vars(SearchRun)

(* The caller has the outcome of its last call.                            *)
Done ==
  /\ stack = <<>>
  /\ round >= 1
  /\ entry = "reduce_puzzle" => (round = 2 \/ ret.kind = "raise")

(************************** notions of the claims **************************)

(* The dict the last call returned.                                        *)
Result == heap[ret.ref]

Returned == Done /\ ret.kind = "value"

(* The position of a box in a grid.                                        *)
BoxIndex(b) == 9 * ((b \div 10) - 1) + (b % 10)

(* Two boxes of one unit hold the same given digit.                        *)
DuplicateGivens(grid) ==
  \E u \in 1..Len(unitlist) : \E i, j \in 1..9 :
    /\ i < j
    /\ grid[BoxIndex(unitlist[u][i])] # 0
    /\ grid[BoxIndex(unitlist[u][i])] = grid[BoxIndex(unitlist[u][j])]

(* Every box has exactly one digit, and the digits of every unit are a     *)
(* permutation of 1..9.                                                    *)
SolvedMapping(d) ==
  /\ DOMAIN d = BoxSet
  /\ \A b \in BoxSet : Len(d[b]) = 1
  /\ \A u \in 1..Len(unitlist) : {d[unitlist[u][i]][1] : i \in 1..9} = 1..9

(* The boxes with more than one candidate, fewest candidates first.        *)
OpenBoxes(m) ==
  Flatten([k \in 1..8 |-> SelectSeq(boxes, LAMBDA b : Len(m[b]) = k + 1)])

(* The partial assignment a (0: not assigned yet) extends to the boxes of  *)
(* todo, every box taking a digit of its domain in m that none of its      *)
(* peers has.                                                              *)
RECURSIVE Extends(_, _, _)
Extends(m, a, todo) ==
  IF todo = <<>> THEN TRUE
  ELSE LET c == Head(todo)
       IN \E d \in Range(m[c]) :
            /\ \A p \in peers[c] : a[p] # d
            /\ Extends(m, [a EXCEPT ![c] = d], Tail(todo))

(* The mapping m has a valid completion: one digit of its domain for every *)
(* box, no two peers alike (every unit then holds 9 distinct digits).      *)
HasCompletion(m) ==
  /\ \A b \in BoxSet : Len(m[b]) >= 1
  /\ \A b \in BoxSet : Len(m[b]) = 1 =>
       \A p \in peers[b] : Len(m[p]) = 1 => m[p][1] # m[b][1]
  /\ Extends(m, [b \in BoxSet |-> IF Len(m[b]) = 1 THEN m[b][1] ELSE 0], OpenBoxes(m))

(******************************** claims ***********************************)

(* C1: for every grid with two identical given digits in one unit,         *)
(* solve(grid) returns the empty mapping as a normal return value; no step *)
(* of grid_values -> reduce_puzzle -> search raises.                       *)
C1_DuplicateGivensReturnFailure ==
  (entry = "solve" /\ Done /\ DuplicateGivens(input)) =>
    (ret.kind = "value" /\ Result = EmptyDict)

(* C2: whenever search returns a mapping that is not the failure value,    *)
(* every box of it has exactly one digit and every unit of unitlist holds  *)
(* a permutation of 1..9.                                                  *)
C2_SearchSound ==
  (entry = "search" /\ Returned /\ Result # EmptyDict) => SolvedMapping(Result)

(* search has returned a solved mapping for an input that left boxes open. *)
C2_Witness ==
  /\ entry = "search" /\ Returned /\ Result # EmptyDict
  /\ \E b \in BoxSet : Len(input[b]) > 1

(* C3: when the input mapping has a valid completion, search returns a     *)
(* solved mapping, never the failure value.                                *)
C3_SearchComplete ==
  (entry = "search" /\ Done) =>
    \/ ret.kind = "value" /\ SolvedMapping(Result)
    \/ ~HasCompletion(input)

(* search has returned a completion of an input that left boxes open.      *)
C3_Witness ==
  /\ entry = "search" /\ Returned /\ SolvedMapping(Result)
  /\ \E b \in BoxSet : Len(input[b]) > 1
  /\ \A b \in BoxSet : Result[b][1] \in Range(input[b])

(* C4: reduce_puzzle applied to what reduce_puzzle returned returns the    *)
(* same mapping again, the Contradiction (empty) result included.          *)
C4_ReduceIdempotent ==
  (entry = "reduce_puzzle" /\ Done) =>
    (round = 2 /\ ret.kind = "value" /\ Result = heap[first])

(* C5 as claimed: after every iteration of the loop of reduce_puzzle the   *)
(* number of boxes with exactly one digit is at least what it was before.  *)
C5_CountNeverDecreases == iter.ran => iter.after >= iter.before

(* C5: after every iteration of the loop of reduce_puzzle that leaves no   *)
(* box with an empty domain, the number of boxes with exactly one digit is *)
(* at least what it was before the iteration.                              *)
C5_CountGrowsUnlessEmptied ==
  iter.ran => (iter.after >= iter.before \/ iter.empty # 0)

(* An iteration has fixed more boxes and emptied none.                     *)
C5_Witness == iter.ran /\ iter.empty = 0 /\ iter.after > iter.before

(* X and Y are the only two boxes of the unit whose domain in m is exactly *)
(* one pair of digits.                                                     *)
TwinsIn(m, unit, X, Y) ==
  /\ X # Y /\ X \in Range(unit) /\ Y \in Range(unit)
  /\ Len(m[X]) = 2 /\ Cardinality(Range(m[X])) = 2
  /\ Len(m[Y]) = 2 /\ Range(m[Y]) = Range(m[X])
  /\ \A Z \in Range(unit) \ {X, Y} : ~(Len(m[Z]) = 2 /\ Range(m[Z]) = Range(m[X]))

(* C6: for every unit U in which X and Y are the only boxes with the       *)
(* domain {d1, d2} in the input, if naked_twins returns a mapping then no  *)
(* other box of U has d1 or d2 in it, whatever twins the units processed   *)
(* before U hold.                                                          *)
C6_TwinsEliminated ==
  (entry = "naked_twins" /\ Returned /\ Result # EmptyDict) =>
    \A u \in 1..Len(unitlist) : \A X, Y \in Range(unitlist[u]) :
      TwinsIn(input, unitlist[u], X, Y) =>
        \A Z \in Range(unitlist[u]) \ {X, Y} :
          Range(Result[Z]) \cap Range(input[X]) = {}

(* C7 as claimed: after eliminate no peer of a box that had the single     *)
(* digit d in the input has d, and a domain becomes empty only if the      *)
(* input had two peers fixed to the same digit.                            *)
C7_EliminateAsClaimed ==
  (entry = "eliminate" /\ Returned) =>
    /\ \A c \in BoxSet : Len(input[c]) = 1 =>
         \A p \in peers[c] : input[c][1] \notin Range(Result[p])
    /\ (\E b \in BoxSet : input[b] # <<>> /\ Result[b] = <<>>) =>
         \E c \in BoxSet : \E p \in peers[c] : Len(input[c]) = 1 /\ input[p] = input[c]

(* C7: after eliminate no peer of a box that had the single digit d in the *)
(* input and still has it has d, and a domain that was not empty in the    *)
(* input becomes empty only if the input has no valid completion.          *)
C7_EliminateSound ==
  (entry = "eliminate" /\ Returned) =>
    /\ \A c \in BoxSet : (Len(input[c]) = 1 /\ Result[c] = input[c]) =>
         \A p \in peers[c] : input[c][1] \notin Range(Result[p])
    /\ (\E b \in BoxSet : input[b] # <<>> /\ Result[b] = <<>>) => ~HasCompletion(input)

(* eliminate has taken the digit of a box that stayed fixed out of an open *)
(* peer, and has emptied a domain.                                         *)
C7_Witness ==
  /\ entry = "eliminate" /\ Returned
  /\ \E c \in BoxSet :
       /\ Len(input[c]) = 1 /\ Result[c] = input[c]
       /\ \E p \in peers[c] : Len(input[p]) > 1 /\ input[c][1] \in Range(input[p])
  /\ \E b \in BoxSet : input[b] # <<>> /\ Result[b] = <<>>

(* The caller's dict holds what it held before the call.                   *)
CallerKept == entry # "solve" => heap[0] = input

(* In search, between the candidates of the loop of line 215, the local    *)
(* dict differs from what it held after reduce_puzzle in square_fewest     *)
(* only.                                                                   *)
SiblingsKept ==
  \A k \in 1..Len(stack) :
    (stack[k].fn = "search" /\ stack[k].pc \in {"loop", "called"}) =>
      \A b \in BoxSet \ {stack[k].square} :
        heap[stack[k].values][b] = stack[k].post[b]

(* A step leaves the dict every active call was given as it was at the     *)
(* call (the step that returns from the call included).                    *)
ArgumentsKept ==
  \A k \in 1..Len(stack) :
    (stack[k].arg # NoRef /\ stack[k].arg \in DOMAIN heap') =>
      heap'[stack[k].arg] = stack[k].argv

(* C8: eliminate, only_choice, reduce_puzzle, naked_twins and search leave *)
(* the dict they are given as it was, whether they succeed or fail; in     *)
(* search the next candidate of a box sees every other box as it was after *)
(* propagation in the parent.                                              *)
C8_NoCallerMutation ==
  [](CallerKept /\ SiblingsKept) /\ [][ArgumentsKept]_vars

(* A candidate of search has failed and the loop is at the next one.       *)
C8_Witness ==
  \E k \in 1..Len(stack) :
    /\ stack[k].fn = "search" /\ stack[k].pc = "loop"
    /\ stack[k].i = 2 /\ stack[k].i <= Len(stack[k].digits)
    /\ heap[stack[k].values][stack[k].square] # stack[k].post[stack[k].square]

(* The number of search frames on the stack.                               *)
Depth == Cardinality({k \in 1..Len(stack) : stack[k].fn = "search"})

(* No level of search has tried more than 9 digits, or a digit twice.      *)
TriedOnce ==
  \A k \in 1..Len(stack) :
    /\ Len(stack[k].tried) <= 9
    /\ \A i, j \in 1..Len(stack[k].tried) :
         i # j => stack[k].tried[i] # stack[k].tried[j]

(* The number of boxes of the dict contents d with more than one digit.    *)
OpenCount(d) == Cardinality({b \in DOMAIN d : Len(d[b]) > 1})

(* Every level of search that has called search again was left with fewer  *)
(* open boxes after reduce_puzzle than the level that called it (so that   *)
(* 81 boxes bound the depth).                                              *)
FewerOpenBelow ==
  \A j, k \in 1..Len(stack) :
    (/\ j < k
     /\ stack[j].fn = "search" /\ stack[j].pc \in {"loop", "called"}
     /\ stack[k].fn = "search" /\ stack[k].pc \in {"loop", "called"})
      => OpenCount(stack[k].post) < OpenCount(stack[j].post)

(* C9: search returns in the end, its recursion is never deeper than 81    *)
(* (every level has fewer open boxes than the one above), and a level      *)
(* tries at most 9 digits and none of them twice.                          *)
C9_SearchTerminates ==
  /\ (entry = "search") ~> Done
  /\ [](Depth <= 81 /\ FewerOpenBelow /\ TriedOnce)

(* search is three levels deep and has tried two digits at one level.      *)
C9_Witness ==
  /\ entry = "search" /\ Depth >= 3
  /\ \E k \in 1..Len(stack) : Len(stack[k].tried) >= 2

Distinct(u) == \A i, j \in 1..Len(u) : i # j => u[i] # u[j]

(* C10 as claimed: whatever the caller invokes, unitlist has exactly 21     *)
(* units of 9 distinct boxes.                                              *)
C10_TwentyOneUnits ==
  (entry \in {"solve"} \cup Entries) =>
  /\ Len(unitlist) = 21
  /\ \A u \in 1..Len(unitlist) : Len(unitlist[u]) = 9 /\ Distinct(unitlist[u])

(* C10: whatever the caller invokes, unitlist has exactly 29 units (9      *)
(* rows, 9 columns, 9 squares and 2 diagonals), each a sequence of exactly *)
(* 9 distinct boxes.                                                       *)
C10_TwentyNineUnits ==
  (entry \in {"solve"} \cup Entries) =>
  /\ Len(unitlist) = 29
  /\ Len(row_units) = 9 /\ Len(column_units) = 9
  /\ Len(square_units) = 9 /\ Len(diagonal_units) = 2
  /\ \A u \in 1..Len(unitlist) :
       Len(unitlist[u]) = 9 /\ Distinct(unitlist[u]) /\ Range(unitlist[u]) \subseteq BoxSet

(* solve(diag_sudoku_grid) has returned a mapping in which every unit of   *)
(* unitlist, the two diagonals among them, holds the nine digits.          *)
C10_Witness ==
  /\ entry = "solve" /\ input = diag_sudoku_grid /\ Returned
  /\ Result # EmptyDict
  /\ \A u \in 1..Len(unitlist) :
       {Result[b] : b \in Range(unitlist[u])} = {<<digit>> : digit \in 1..9}

====
